---- MODULE Spec2Model ----
(***************************************************************************)
(* Dining philosophers (src/src/main.rs): N philosopher threads, each      *)
(* cycling deadline-check / think / maybe try_to_eat over a ring of        *)
(* std::sync::Mutex chopsticks, a shared event log behind one Mutex, and   *)
(* the single-threaded analyze() that replays the log after the join.      *)
(*                                                                         *)
(* Time is a discrete clock `now`; one tick is the unit of both the run    *)
(* duration and the sleep durations.                                       *)
(***************************************************************************)
EXTENDS Integers, Sequences, FiniteSets, TLC

\* ---- bounds of the model -------------------------------------------------
MaxN == 3        \* philosophers at the table
MaxTimeout == 2  \* run duration, in ticks
MaxThink == 2    \* cli.think, in ticks
MaxEat == 2      \* cli.eat, in ticks
MaxWork == 12    \* n * (2 * timeout + think + eat) of the runs explored
MaxLogLen == 4   \* length of the logs handed to analyze on its own

VARIABLES
    n,                  \* cli.number
    timeout,            \* Duration::new(cli.duration, 0)
    max_think_duration, \* cli.think
    max_eat_duration,   \* cli.eat
    now,                \* time elapsed since `let now = SystemTime::now()`
    pc,                 \* position of each philosopher thread
    wake,               \* end of the current thread::sleep of each thread
    chopsticks,         \* holder of each chopstick Mutex (Free when unlocked)
    poisoned,           \* poison flag of each chopstick Mutex
    locked_left,        \* the local `locked_left` of try_to_eat
    locked_right,       \* the local `locked_right` of try_to_eat
    events,             \* the Vec<Event> behind the events Mutex
    stamps,             \* stamps[k] = value of `now` when events[k] was pushed
    events_lock,        \* holder of the events Mutex
    times_fed,          \* Philosopher.times_fed
    times_fed_lock,     \* whether the guard `t` on times_fed is alive
    mainPc,             \* position of the main thread
    i,                  \* loop index of analyze
    currently_eating,   \* analyze: HashSet<(usize,usize,usize)>
    currently_thinking, \* analyze: HashSet<usize>
    discrepancies,      \* analyze: Vec<(usize,usize,usize)>
    analyze_times_fed,  \* analyze: HashMap<usize,u64> `times_fed`
    verdict             \* what analyze printed at the end

cfgVars == <<n, timeout, max_think_duration, max_eat_duration>>
threadVars == <<pc, wake, chopsticks, poisoned, locked_left, locked_right,
                events, stamps, events_lock, times_fed, times_fed_lock>>
analyzeVars == <<i, currently_eating, currently_thinking, discrepancies,
                 analyze_times_fed, verdict>>
vars == <<cfgVars, now, threadVars, mainPc, analyzeVars>>

Free == -1

\* ---- data ----------------------------------------------------------------
Thinking(p) == <<"Thinking", p>>
Eating(p, l, r) == <<"Eating", p, l, r>>
FinishedEating(p, l, r) == <<"FinishedEating", p, l, r>>

Philosophers == 0 .. (n - 1)

\* n_chopsticks: the chopstick at index c carries id c
n_chopsticks(k) == [c \in 0 .. (k - 1) |-> c]

\* mutant of left_chopstick: the ring is walked the other way
left_chopstick_next(p) == (p + 1) % n

\* main: Philosopher::new(i, chopsticks[(n - 1 + i) % n], chopsticks[i])
left_chopstick(p) == (n - 1 + p) % n
right_chopstick(p) == p

\* mutant of rand_sleep_duration: the range is one too long
rand_sleep_duration_long(max_millis) == 1 .. (max_millis + 1)

\* rand_sleep_duration: rng.random_range(1..=max_millis); an empty range panics
rand_sleep_duration(max_millis) == 1 .. max_millis

\* mutant of try_lock: the lock state is not tested
try_lock_unchecked(c) ==
    IF poisoned[c] THEN "Poisoned" ELSE "Ok"

\* Mutex::try_lock: WouldBlock while locked (also by the caller itself: the
\* Mutex is not reentrant); on a free poisoned Mutex the lock is taken and the
\* guard comes back inside Err(Poisoned)
try_lock(c) ==
    IF chopsticks[c] # Free THEN "WouldBlock"
    ELSE IF poisoned[c] THEN "Poisoned"
    ELSE "Ok"

HoldsGuard(res) == res \in {"Ok", "Poisoned"}

\* mutant of deadline_passed: > in place of >=
deadline_passed_strict(elapsed) == elapsed > timeout

\* the deadline test of the thread loop: elapsed >= timeout
deadline_passed(elapsed) == elapsed >= timeout

Terminated == {"done", "clockFailed", "panicked"}
Sleeping == {"thinkSleep", "eating"}

\* ---- initial state -------------------------------------------------------
AnalyzeInit ==
    /\ i = 0
    /\ currently_eating = {}
    /\ currently_thinking = {}
    /\ discrepancies = <<>>
    /\ analyze_times_fed = <<>>
    /\ verdict = "none"

Init ==
    /\ n \in 1 .. MaxN
    /\ timeout \in 1 .. MaxTimeout
    /\ max_think_duration \in 0 .. MaxThink
    /\ max_eat_duration \in 0 .. MaxEat
    /\ n * (2 * timeout + max_think_duration + max_eat_duration) <= MaxWork
    /\ now = 0
    /\ pc = [p \in Philosophers |-> "check"]
    /\ wake = [p \in Philosophers |-> 0]
    /\ chopsticks = [c \in DOMAIN n_chopsticks(n) |-> Free]
    /\ poisoned = [c \in DOMAIN n_chopsticks(n) |-> FALSE]
    /\ locked_left = [p \in Philosophers |-> "None"]
    /\ locked_right = [p \in Philosophers |-> "None"]
    /\ events = <<>>
    /\ stamps = <<>>
    /\ events_lock = Free
    /\ times_fed = [p \in Philosophers |-> 0]
    /\ times_fed_lock = [p \in Philosophers |-> FALSE]
    /\ mainPc = "scope"
    /\ AnalyzeInit

\* ---- philosopher threads -------------------------------------------------
\* a panic unwinds the thread: every chopstick guard it holds is dropped
\* while panicking, which unlocks and poisons that Mutex
Panic(p) ==
    /\ pc' = [pc EXCEPT ![p] = "panicked"]
    /\ chopsticks' = [c \in DOMAIN chopsticks |->
                        IF chopsticks[c] = p THEN Free ELSE chopsticks[c]]
    /\ poisoned' = [c \in DOMAIN poisoned |-> poisoned[c] \/ chopsticks[c] = p]
    /\ locked_left' = [locked_left EXCEPT ![p] = "None"]
    /\ locked_right' = [locked_right EXCEPT ![p] = "None"]
    /\ times_fed_lock' = [times_fed_lock EXCEPT ![p] = FALSE]
    /\ UNCHANGED <<wake, events, stamps, events_lock, times_fed>>

\* mutant of CheckDeadline: a failed clock read stops every thread that is at
\* its deadline check
CheckDeadline_stop_all(p) ==
    /\ pc[p] = "check"
    /\ \E clockOk \in BOOLEAN :
         pc' = IF ~clockOk
               THEN [q \in DOMAIN pc |->
                        IF pc[q] = "check" THEN "clockFailed" ELSE pc[q]]
               ELSE [pc EXCEPT ![p] =
                        IF deadline_passed(now) THEN "done" ELSE "think"]
    /\ UNCHANGED <<cfgVars, now, wake, chopsticks, poisoned, locked_left,
                   locked_right, events, stamps, events_lock, times_fed,
                   times_fed_lock, mainPc, analyzeVars>>

\* loop head: now.elapsed() fails, or the deadline has passed, or go on
CheckDeadline(p) ==
    /\ pc[p] = "check"
    /\ \E clockOk \in BOOLEAN :
         pc' = [pc EXCEPT ![p] =
                  IF ~clockOk THEN "clockFailed"
                  ELSE IF deadline_passed(now) THEN "done"
                  ELSE "think"]
    /\ UNCHANGED <<cfgVars, now, wake, chopsticks, poisoned, locked_left,
                   locked_right, events, stamps, events_lock, times_fed,
                   times_fed_lock, mainPc, analyzeVars>>

\* think: rand_sleep_duration, then events.lock()
Think(p) ==
    /\ pc[p] = "think"
    /\ IF rand_sleep_duration(max_think_duration) = {}
       THEN Panic(p)
       ELSE /\ events_lock = Free
            /\ events_lock' = p
            /\ pc' = [pc EXCEPT ![p] = "thinkPush"]
            /\ UNCHANGED <<wake, chopsticks, poisoned, locked_left,
                           locked_right, events, stamps, times_fed,
                           times_fed_lock>>
    /\ UNCHANGED <<cfgVars, now, mainPc, analyzeVars>>

\* think: push Thinking, drop(es), start thread::sleep(millis)
ThinkPush(p) ==
    /\ pc[p] = "thinkPush"
    /\ events' = Append(events, Thinking(p))
    /\ stamps' = Append(stamps, now)
    /\ events_lock' = Free
    /\ \E millis \in rand_sleep_duration(max_think_duration) :
         wake' = [wake EXCEPT ![p] = now + millis]
    /\ pc' = [pc EXCEPT ![p] = "thinkSleep"]
    /\ UNCHANGED <<cfgVars, now, chopsticks, poisoned, locked_left,
                   locked_right, times_fed, times_fed_lock, mainPc,
                   analyzeVars>>

\* think returns once its sleep is over; is_hungry is a coin flip
IsHungry(p) ==
    /\ pc[p] = "thinkSleep"
    /\ now >= wake[p]
    /\ \E hungry \in BOOLEAN :
         pc' = [pc EXCEPT ![p] = IF hungry THEN "tryLeft" ELSE "check"]
    /\ wake' = [wake EXCEPT ![p] = 0]
    /\ UNCHANGED <<cfgVars, now, chopsticks, poisoned, locked_left,
                   locked_right, events, stamps, events_lock, times_fed,
                   times_fed_lock, mainPc, analyzeVars>>

\* mutant of TryLockLeft: a blocking lock() in place of try_lock()
TryLockLeft_blocking(p) ==
    /\ pc[p] = "tryLeft"
    /\ chopsticks[left_chopstick(p)] = Free
    /\ locked_left' = [locked_left EXCEPT ![p] =
                          IF poisoned[left_chopstick(p)] THEN "Poisoned" ELSE "Ok"]
    /\ chopsticks' = [chopsticks EXCEPT ![left_chopstick(p)] = p]
    /\ pc' = [pc EXCEPT ![p] = "tryRight"]
    /\ UNCHANGED <<cfgVars, now, wake, poisoned, locked_right, events,
                   stamps, events_lock, times_fed, times_fed_lock, mainPc,
                   analyzeVars>>

\* try_to_eat: let locked_left = self.left_chopstick.try_lock()
TryLockLeft(p) ==
    /\ pc[p] = "tryLeft"
    /\ LET c == left_chopstick(p)
           res == try_lock(c)
       IN /\ locked_left' = [locked_left EXCEPT ![p] = res]
          /\ chopsticks' = IF HoldsGuard(res)
                           THEN [chopsticks EXCEPT ![c] = p]
                           ELSE chopsticks
    /\ pc' = [pc EXCEPT ![p] = "tryRight"]
    /\ UNCHANGED <<cfgVars, now, wake, poisoned, locked_right, events,
                   stamps, events_lock, times_fed, times_fed_lock, mainPc,
                   analyzeVars>>

\* try_to_eat: let locked_right = self.right_chopstick.try_lock(), then the
\* two `if let Ok(..)` tests; with nothing to drop the function returns
TryLockRight(p) ==
    /\ pc[p] = "tryRight"
    /\ LET c == right_chopstick(p)
           res == try_lock(c)
           next == IF locked_left[p] = "Ok" /\ res = "Ok" THEN "eat"
                   ELSE IF locked_left[p] = "Ok" THEN "endIfLeft"
                   ELSE IF HoldsGuard(res) THEN "endFnRight"
                   ELSE IF HoldsGuard(locked_left[p]) THEN "endFnLeft"
                   ELSE "check"
       IN /\ chopsticks' = IF HoldsGuard(res)
                           THEN [chopsticks EXCEPT ![c] = p]
                           ELSE chopsticks
          /\ locked_right' = [locked_right EXCEPT ![p] =
                                IF next = "check" THEN "None" ELSE res]
          /\ locked_left' = [locked_left EXCEPT ![p] =
                               IF next = "check" THEN "None" ELSE @]
          /\ pc' = [pc EXCEPT ![p] = next]
    /\ UNCHANGED <<cfgVars, now, wake, poisoned, events, stamps,
                   events_lock, times_fed, times_fed_lock, mainPc,
                   analyzeVars>>

\* mutant of EndIfLeft: the function returns without dropping left_guard
EndIfLeft_leak(p) ==
    /\ pc[p] = "endIfLeft"
    /\ locked_left' = [locked_left EXCEPT ![p] = "None"]
    /\ locked_right' = [locked_right EXCEPT ![p] =
                          IF HoldsGuard(@) THEN @ ELSE "None"]
    /\ pc' = [pc EXCEPT ![p] =
                IF HoldsGuard(locked_right[p]) THEN "endFnRight" ELSE "check"]
    /\ UNCHANGED <<cfgVars, now, wake, chopsticks, poisoned, events, stamps,
                   events_lock, times_fed, times_fed_lock, mainPc,
                   analyzeVars>>

\* mutant of EndIfLeft: after the right try_lock failed the attempt is made
\* again until it succeeds
EndIfLeft_retry(p) ==
    /\ pc[p] = "endIfLeft"
    /\ chopsticks' = [chopsticks EXCEPT ![left_chopstick(p)] = Free]
    /\ locked_left' = [locked_left EXCEPT ![p] = "None"]
    /\ locked_right' = [locked_right EXCEPT ![p] =
                          IF HoldsGuard(@) THEN @ ELSE "None"]
    /\ pc' = [pc EXCEPT ![p] =
                IF HoldsGuard(locked_right[p]) THEN "endFnRight"
                ELSE "tryLeft"]
    /\ UNCHANGED <<cfgVars, now, wake, poisoned, events, stamps,
                   events_lock, times_fed, times_fed_lock, mainPc,
                   analyzeVars>>

\* right failed: left_guard goes out of scope at the end of the outer if-let;
\* the function returns unless locked_right holds a guard to drop
EndIfLeft(p) ==
    /\ pc[p] = "endIfLeft"
    /\ chopsticks' = [chopsticks EXCEPT ![left_chopstick(p)] = Free]
    /\ locked_left' = [locked_left EXCEPT ![p] = "None"]
    /\ locked_right' = [locked_right EXCEPT ![p] =
                          IF HoldsGuard(@) THEN @ ELSE "None"]
    /\ pc' = [pc EXCEPT ![p] =
                IF HoldsGuard(locked_right[p]) THEN "endFnRight" ELSE "check"]
    /\ UNCHANGED <<cfgVars, now, wake, poisoned, events, stamps,
                   events_lock, times_fed, times_fed_lock, mainPc,
                   analyzeVars>>

\* end of try_to_eat without eating: locked_right is dropped first
EndFnRight(p) ==
    /\ pc[p] = "endFnRight"
    /\ chopsticks' = [chopsticks EXCEPT ![right_chopstick(p)] = Free]
    /\ locked_right' = [locked_right EXCEPT ![p] = "None"]
    /\ locked_left' = [locked_left EXCEPT ![p] =
                         IF HoldsGuard(@) THEN @ ELSE "None"]
    /\ pc' = [pc EXCEPT ![p] =
                IF HoldsGuard(locked_left[p]) THEN "endFnLeft" ELSE "check"]
    /\ UNCHANGED <<cfgVars, now, wake, poisoned, events, stamps,
                   events_lock, times_fed, times_fed_lock, mainPc,
                   analyzeVars>>

\* end of try_to_eat without eating: then locked_left is dropped and the
\* function returns
EndFnLeft(p) ==
    /\ pc[p] = "endFnLeft"
    /\ chopsticks' = [chopsticks EXCEPT ![left_chopstick(p)] = Free]
    /\ locked_left' = [locked_left EXCEPT ![p] = "None"]
    /\ locked_right' = [locked_right EXCEPT ![p] = "None"]
    /\ pc' = [pc EXCEPT ![p] = "check"]
    /\ UNCHANGED <<cfgVars, now, wake, poisoned, events, stamps,
                   events_lock, times_fed, times_fed_lock, mainPc,
                   analyzeVars>>

\* eat: rand_sleep_duration, then events.lock()
Eat(p) ==
    /\ pc[p] = "eat"
    /\ IF rand_sleep_duration(max_eat_duration) = {}
       THEN Panic(p)
       ELSE /\ events_lock = Free
            /\ events_lock' = p
            /\ pc' = [pc EXCEPT ![p] = "eatPush"]
            /\ UNCHANGED <<wake, chopsticks, poisoned, locked_left,
                           locked_right, events, stamps, times_fed,
                           times_fed_lock>>
    /\ UNCHANGED <<cfgVars, now, mainPc, analyzeVars>>

\* mutant of EatPush: the event is inserted at the head of the log
EatPush_at_head(p) ==
    /\ pc[p] = "eatPush"
    /\ events' = <<Eating(p, n_chopsticks(n)[left_chopstick(p)],
                          n_chopsticks(n)[right_chopstick(p)])>> \o events
    /\ stamps' = <<now>> \o stamps
    /\ events_lock' = Free
    /\ \E millis \in rand_sleep_duration(max_eat_duration) :
         wake' = [wake EXCEPT ![p] = now + millis]
    /\ pc' = [pc EXCEPT ![p] = "eating"]
    /\ UNCHANGED <<cfgVars, now, chopsticks, poisoned, locked_left,
                   locked_right, times_fed, times_fed_lock, mainPc,
                   analyzeVars>>

\* eat: push Eating(id, left_id, right_id), drop(es), start the sleep
EatPush(p) ==
    /\ pc[p] = "eatPush"
    /\ events' = Append(events,
                        Eating(p, n_chopsticks(n)[left_chopstick(p)],
                                  n_chopsticks(n)[right_chopstick(p)]))
    /\ stamps' = Append(stamps, now)
    /\ events_lock' = Free
    /\ \E millis \in rand_sleep_duration(max_eat_duration) :
         wake' = [wake EXCEPT ![p] = now + millis]
    /\ pc' = [pc EXCEPT ![p] = "eating"]
    /\ UNCHANGED <<cfgVars, now, chopsticks, poisoned, locked_left,
                   locked_right, times_fed, times_fed_lock, mainPc,
                   analyzeVars>>

\* mutant of Feed: both guards are dropped as soon as eat returns
Feed_release_early(p) ==
    /\ pc[p] = "eating"
    /\ now >= wake[p]
    /\ ~times_fed_lock[p]
    /\ times_fed_lock' = [times_fed_lock EXCEPT ![p] = TRUE]
    /\ times_fed' = [times_fed EXCEPT ![p] = @ + 1]
    /\ chopsticks' = [c \in DOMAIN chopsticks |->
                        IF chopsticks[c] = p THEN Free ELSE chopsticks[c]]
    /\ pc' = [pc EXCEPT ![p] = "finLock"]
    /\ wake' = [wake EXCEPT ![p] = 0]
    /\ UNCHANGED <<cfgVars, now, poisoned, locked_left, locked_right,
                   events, stamps, events_lock, mainPc, analyzeVars>>

\* mutant of Feed: the counter is not incremented
Feed_no_increment(p) ==
    /\ pc[p] = "eating"
    /\ now >= wake[p]
    /\ ~times_fed_lock[p]
    /\ times_fed_lock' = [times_fed_lock EXCEPT ![p] = TRUE]
    /\ pc' = [pc EXCEPT ![p] = "finLock"]
    /\ wake' = [wake EXCEPT ![p] = 0]
    /\ UNCHANGED <<cfgVars, now, chopsticks, poisoned, locked_left,
                   locked_right, events, stamps, events_lock, times_fed,
                   mainPc, analyzeVars>>

\* eat returns once its sleep is over;
\* let mut t = self.times_fed.lock().unwrap(); *t += 1
Feed(p) ==
    /\ pc[p] = "eating"
    /\ now >= wake[p]
    /\ ~times_fed_lock[p]
    /\ times_fed_lock' = [times_fed_lock EXCEPT ![p] = TRUE]
    /\ times_fed' = [times_fed EXCEPT ![p] = @ + 1]
    /\ pc' = [pc EXCEPT ![p] = "finLock"]
    /\ wake' = [wake EXCEPT ![p] = 0]
    /\ UNCHANGED <<cfgVars, now, chopsticks, poisoned, locked_left,
                   locked_right, events, stamps, events_lock, mainPc,
                   analyzeVars>>

\* let mut es = events.lock().unwrap()
FinLock(p) ==
    /\ pc[p] = "finLock"
    /\ events_lock = Free
    /\ events_lock' = p
    /\ pc' = [pc EXCEPT ![p] = "finPush"]
    /\ UNCHANGED <<cfgVars, now, wake, chopsticks, poisoned, locked_left,
                   locked_right, events, stamps, times_fed, times_fed_lock,
                   mainPc, analyzeVars>>

\* es.push(Event::FinishedEating(self.id, left_id, right_id))
FinPush(p) ==
    /\ pc[p] = "finPush"
    /\ events' = Append(events,
                        FinishedEating(p, n_chopsticks(n)[left_chopstick(p)],
                                          n_chopsticks(n)[right_chopstick(p)]))
    /\ stamps' = Append(stamps, now)
    /\ pc' = [pc EXCEPT ![p] = "dropRight"]
    /\ UNCHANGED <<cfgVars, now, wake, chopsticks, poisoned, locked_left,
                   locked_right, events_lock, times_fed, times_fed_lock,
                   mainPc, analyzeVars>>

\* mutant of DropRightGuard: the left guard is dropped first
DropRightGuard_left_first(p) ==
    /\ pc[p] = "dropRight"
    /\ chopsticks' = [chopsticks EXCEPT ![left_chopstick(p)] = Free]
    /\ locked_right' = [locked_right EXCEPT ![p] = "None"]
    /\ pc' = [pc EXCEPT ![p] = "dropLeft"]
    /\ UNCHANGED <<cfgVars, now, wake, poisoned, locked_left, events,
                   stamps, events_lock, times_fed, times_fed_lock, mainPc,
                   analyzeVars>>

\* drop(right_guard)
DropRightGuard(p) ==
    /\ pc[p] = "dropRight"
    /\ chopsticks' = [chopsticks EXCEPT ![right_chopstick(p)] = Free]
    /\ locked_right' = [locked_right EXCEPT ![p] = "None"]
    /\ pc' = [pc EXCEPT ![p] = "dropLeft"]
    /\ UNCHANGED <<cfgVars, now, wake, poisoned, locked_left, events,
                   stamps, events_lock, times_fed, times_fed_lock, mainPc,
                   analyzeVars>>

\* mutant of DropLeftGuard: the left guard is forgotten, not dropped
DropLeftGuard_leak(p) ==
    /\ pc[p] = "dropLeft"
    /\ locked_left' = [locked_left EXCEPT ![p] = "None"]
    /\ pc' = [pc EXCEPT ![p] = "dropEs"]
    /\ UNCHANGED <<cfgVars, now, wake, chopsticks, poisoned, locked_right,
                   events, stamps, events_lock, times_fed, times_fed_lock,
                   mainPc, analyzeVars>>

\* drop(left_guard)
DropLeftGuard(p) ==
    /\ pc[p] = "dropLeft"
    /\ chopsticks' = [chopsticks EXCEPT ![left_chopstick(p)] = Free]
    /\ locked_left' = [locked_left EXCEPT ![p] = "None"]
    /\ pc' = [pc EXCEPT ![p] = "dropEs"]
    /\ UNCHANGED <<cfgVars, now, wake, poisoned, locked_right, events,
                   stamps, events_lock, times_fed, times_fed_lock, mainPc,
                   analyzeVars>>

\* mutant of DropEs: after a meal the philosopher tries to eat again at once
DropEs_retry(p) ==
    /\ pc[p] = "dropEs"
    /\ events_lock' = Free
    /\ times_fed_lock' = [times_fed_lock EXCEPT ![p] = FALSE]
    /\ pc' = [pc EXCEPT ![p] = "tryLeft"]
    /\ UNCHANGED <<cfgVars, now, wake, chopsticks, poisoned, locked_left,
                   locked_right, events, stamps, times_fed, mainPc,
                   analyzeVars>>

\* drop(es); `t` goes out of scope at the end of the block
DropEs(p) ==
    /\ pc[p] = "dropEs"
    /\ events_lock' = Free
    /\ times_fed_lock' = [times_fed_lock EXCEPT ![p] = FALSE]
    /\ pc' = [pc EXCEPT ![p] = "check"]
    /\ UNCHANGED <<cfgVars, now, wake, chopsticks, poisoned, locked_left,
                   locked_right, events, stamps, times_fed, mainPc,
                   analyzeVars>>

Step(p) ==
    \/ CheckDeadline(p)
    \/ Think(p)
    \/ ThinkPush(p)
    \/ IsHungry(p)
    \/ TryLockLeft(p)
    \/ TryLockRight(p)
    \/ EndIfLeft(p)
    \/ EndFnRight(p)
    \/ EndFnLeft(p)
    \/ Eat(p)
    \/ EatPush(p)
    \/ Feed(p)
    \/ FinLock(p)
    \/ FinPush(p)
    \/ DropRightGuard(p)
    \/ DropLeftGuard(p)
    \/ DropEs(p)

\* ---- the clock -----------------------------------------------------------
\* time passes while the run lasts or some thread still has sleep left
Tick ==
    /\ \/ ~deadline_passed(now)
       \/ \E p \in Philosophers : pc[p] \in Sleeping /\ wake[p] > now
    /\ now' = now + 1
    /\ UNCHANGED <<cfgVars, threadVars, mainPc, analyzeVars>>

\* time passes only while every live thread is inside a sleep that has not
\* ended: every step other than a sleep takes no time
TickTimed ==
    /\ \E p \in Philosophers : pc[p] \in Sleeping
    /\ \A p \in Philosophers :
          \/ pc[p] \in Terminated
          \/ pc[p] \in Sleeping /\ wake[p] > now
    /\ now' = now + 1
    /\ UNCHANGED <<cfgVars, threadVars, mainPc, analyzeVars>>

ThreadsNext == \E p \in Philosophers : Step(p)

\* ---- main thread: join, then analyze ------------------------------------
\* mutant of Join: main goes on as soon as one thread has finished
Join_first ==
    /\ mainPc = "scope"
    /\ \E p \in Philosophers : pc[p] \in Terminated
    /\ mainPc' = IF \E p \in Philosophers : pc[p] = "panicked"
                 THEN "panicked" ELSE "analyze"
    /\ UNCHANGED <<cfgVars, now, threadVars, analyzeVars>>

\* thread::scope returns once every spawned thread has finished; it panics
\* itself if one of them panicked, else main snapshots the log for analyze
Join ==
    /\ mainPc = "scope"
    /\ \A p \in Philosophers : pc[p] \in Terminated
    /\ mainPc' = IF \E p \in Philosophers : pc[p] = "panicked"
                 THEN "panicked" ELSE "analyze"
    /\ UNCHANGED <<cfgVars, now, threadVars, analyzeVars>>

\* mutant of overlaps: the test left == eating_right is missing
overlaps_three(left, right, eating_left, eating_right) ==
    \/ left = eating_left
    \/ right = eating_left
    \/ right = eating_right

\* analyze: the test of the inner loop on one active tuple
overlaps(left, right, eating_left, eating_right) ==
    \/ left = eating_left
    \/ left = eating_right
    \/ right = eating_left
    \/ right = eating_right

\* the orders in which a HashSet may hand out the elements of S
IterationOrders(S) ==
    {f \in [1 .. Cardinality(S) -> S] :
        \A a, b \in 1 .. Cardinality(S) : a # b => f[a] # f[b]}

\* analyze: loop body, Event::Thinking(v)
AnalyzeThinking ==
    /\ mainPc = "analyze"
    /\ i < Len(events)
    /\ events[i + 1][1] = "Thinking"
    /\ currently_thinking' = currently_thinking \cup {events[i + 1][2]}
    /\ i' = i + 1
    /\ UNCHANGED <<cfgVars, now, threadVars, mainPc, currently_eating,
                   discrepancies, analyze_times_fed, verdict>>

\* analyze: loop body, Event::Eating(v, left, right)
AnalyzeEating ==
    /\ mainPc = "analyze"
    /\ i < Len(events)
    /\ events[i + 1][1] = "Eating"
    /\ LET v == events[i + 1][2]
           left == events[i + 1][3]
           right == events[i + 1][4]
           hits == {t \in currently_eating : overlaps(left, right, t[2], t[3])}
       IN /\ \E order \in IterationOrders(hits) :
                discrepancies' = discrepancies \o
                    [k \in 1 .. Cardinality(hits) |-> <<i, v, order[k][1]>>]
          /\ currently_thinking' = currently_thinking \ {v}
          /\ currently_eating' = currently_eating \cup {<<v, left, right>>}
    /\ i' = i + 1
    /\ UNCHANGED <<cfgVars, now, threadVars, mainPc, analyze_times_fed,
                   verdict>>

\* analyze: loop body, Event::FinishedEating(v, left, right)
AnalyzeFinishedEating ==
    /\ mainPc = "analyze"
    /\ i < Len(events)
    /\ events[i + 1][1] = "FinishedEating"
    /\ LET v == events[i + 1][2]
           left == events[i + 1][3]
           right == events[i + 1][4]
       IN /\ currently_eating' = currently_eating \ {<<v, left, right>>}
          /\ analyze_times_fed' =
                [x \in DOMAIN analyze_times_fed \cup {v} |->
                    IF x \in DOMAIN analyze_times_fed
                    THEN analyze_times_fed[x] + (IF x = v THEN 1 ELSE 0)
                    ELSE 1]
    /\ i' = i + 1
    /\ UNCHANGED <<cfgVars, now, threadVars, mainPc, currently_thinking,
                   discrepancies, verdict>>

\* analyze: the per-philosopher line of the report
reported_times_fed(p) ==
    IF p \in DOMAIN analyze_times_fed THEN analyze_times_fed[p] ELSE 0

\* analyze: after the loop, print the counts and the verdict
Report ==
    /\ mainPc = "analyze"
    /\ i = Len(events)
    /\ verdict' = IF Len(discrepancies) = 0
                  THEN "Simulation correct"
                  ELSE "discrepancies found"
    /\ mainPc' = "reported"
    /\ UNCHANGED <<cfgVars, now, threadVars, i, currently_eating,
                   currently_thinking, discrepancies, analyze_times_fed>>

AnalyzeNext ==
    \/ AnalyzeThinking
    \/ AnalyzeEating
    \/ AnalyzeFinishedEating
    \/ Report

\* ---- specifications -----------------------------------------------------
Next == ThreadsNext \/ Tick \/ Join \/ AnalyzeNext

Spec == Init /\ [][Next]_vars

\* the run under the discrete clock in which only sleeps take time
NextTimed == ThreadsNext \/ TickTimed \/ Join \/ AnalyzeNext

SpecTimed == Init /\ [][NextTimed]_vars

\* the run under a scheduler that lets time pass and every thread run
SpecFair ==
    /\ Spec
    /\ WF_vars(Tick)
    /\ \A p \in 0 .. (MaxN - 1) : WF_vars(p \in Philosophers /\ Step(p))

\* the runs in which is_hungry returns true every time it is called
ThreadsNextHungry ==
    \E p \in Philosophers :
       /\ Step(p)
       /\ pc[p] = "thinkSleep" => pc'[p] = "tryLeft"

NextHungry == ThreadsNextHungry \/ Tick \/ Join \/ AnalyzeNext

SpecHungry == Init /\ [][NextHungry]_vars

\* analyze on its own, handed any log over a few events
AnalyzeTuples == {<<0, 4, 0>>, <<1, 0, 1>>, <<2, 1, 2>>, <<0, 2, 3>>}

AnalyzeEvents ==
    {Thinking(1)}
      \cup {Eating(t[1], t[2], t[3]) : t \in AnalyzeTuples}
      \cup {FinishedEating(t[1], t[2], t[3]) : t \in AnalyzeTuples}

InitAnalyze ==
    /\ n = MaxN
    /\ timeout = 1
    /\ max_think_duration = 1
    /\ max_eat_duration = 1
    /\ now = 1
    /\ pc = [p \in Philosophers |-> "done"]
    /\ wake = [p \in Philosophers |-> 0]
    /\ chopsticks = [c \in DOMAIN n_chopsticks(n) |-> Free]
    /\ poisoned = [c \in DOMAIN n_chopsticks(n) |-> FALSE]
    /\ locked_left = [p \in Philosophers |-> "None"]
    /\ locked_right = [p \in Philosophers |-> "None"]
    /\ \E len \in 0 .. MaxLogLen : events \in [1 .. len -> AnalyzeEvents]
    /\ stamps = [k \in 1 .. Len(events) |-> 0]
    /\ events_lock = Free
    /\ times_fed = [p \in Philosophers |-> 0]
    /\ times_fed_lock = [p \in Philosophers |-> FALSE]
    /\ mainPc = "analyze"
    /\ AnalyzeInit

SpecAnalyze == InitAnalyze /\ [][AnalyzeNext]_vars

\* ---- properties ---------------------------------------------------------
\* the Eating event at index j has no matching FinishedEating in events[1..k]
ActiveIn(j, k) ==
    /\ j <= k
    /\ events[j][1] = "Eating"
    /\ \A m \in (j + 1) .. k :
          events[m] # FinishedEating(events[j][2], events[j][3], events[j][4])

ResourcesOf(j) == {events[j][3], events[j][4]}

CountEvents(tag, p) ==
    Cardinality({k \in 1 .. Len(events) :
                    events[k][1] = tag /\ events[k][2] = p})

NormallyTerminated == {"done", "clockFailed"}

\* C1: mutual exclusion in the log. For n >= 2, at every Eating event of the
\* log (hence in every prefix of the log) no eating interval of another
\* philosopher that is still active shares a resource id with it; for n = 2
\* no interval of the other philosopher is active at all.
C1_MutualExclusion ==
    n >= 2 =>
      \A b \in 1 .. Len(events) :
        events[b][1] = "Eating" =>
          \A a \in 1 .. (b - 1) :
            (ActiveIn(a, b) /\ events[a][2] # events[b][2]) =>
              /\ ResourcesOf(a) \cap ResourcesOf(b) = {}
              /\ n # 2

\* an eating interval is open while a neighbour's try_lock has just failed
C1_Witness ==
    /\ n >= 2
    /\ \E a \in 1 .. Len(events) :
         /\ ActiveIn(a, Len(events))
         /\ \E q \in Philosophers :
              /\ q # events[a][2]
              /\ "WouldBlock" \in {locked_left[q], locked_right[q]}

\* C2: after a run without a fault, analyze of the final log finds no
\* discrepancy and prints "Simulation correct".
C2_SimulationCorrect ==
    mainPc = "reported" =>
      /\ discrepancies = <<>>
      /\ verdict = "Simulation correct"

\* the report of a run in which two philosophers ate
C2_Witness ==
    /\ mainPc = "reported"
    /\ \E p, q \in Philosophers :
         /\ p # q
         /\ CountEvents("Eating", p) > 0
         /\ CountEvents("Eating", q) > 0

\* C3: conservation. Once every philosopher thread has terminated normally,
\* each philosopher has as many Eating events as FinishedEating events in the
\* log, and that many is its times_fed.
C3_Conservation ==
    (\A p \in Philosophers : pc[p] \in NormallyTerminated) =>
      \A p \in Philosophers :
        /\ CountEvents("Eating", p) = CountEvents("FinishedEating", p)
        /\ CountEvents("FinishedEating", p) = times_fed[p]

\* all threads are over and two philosophers were fed
C3_Witness ==
    /\ \A p \in Philosophers : pc[p] \in NormallyTerminated
    /\ \E p, q \in Philosophers :
         p # q /\ times_fed[p] >= 1 /\ times_fed[q] >= 1

WaitsForEvents(p) ==
    /\ pc[p] \in {"think", "eat", "finLock"}
    /\ events_lock # Free

\* C4: deadlock freedom. While some thread is live, a live thread can take a
\* step (a sleeper: its sleep can run on); a try_lock never waits; the holder
\* of the event-log lock never waits; a thread never waits for its own
\* times_fed lock.
C4_DeadlockFree ==
    /\ (\E p \in Philosophers : pc[p] \notin Terminated) =>
         \E p \in Philosophers :
            /\ pc[p] \notin Terminated
            /\ \/ ENABLED Step(p)
               \/ pc[p] \in Sleeping /\ ENABLED Tick
    /\ \A p \in Philosophers :
         pc[p] \in {"tryLeft", "tryRight"} => ENABLED Step(p)
    /\ \A p \in Philosophers :
         WaitsForEvents(p) =>
            /\ events_lock \in Philosophers \ {p}
            /\ ENABLED Step(events_lock)
    /\ \A p \in Philosophers :
         (pc[p] = "eating" /\ now >= wake[p]) => ENABLED Step(p)

\* a thread holding both chopsticks and its times_fed lock waits for the
\* event-log lock while a neighbour's try_lock finds a chopstick taken
C4_Witness ==
    \E p, q \in Philosophers :
      /\ p # q
      /\ pc[p] = "finLock"
      /\ events_lock = q
      /\ \E r \in Philosophers : pc[r] = "tryLeft" /\ chopsticks[left_chopstick(r)] = p

\* events of philosopher p with the given tag pushed at or after the deadline
CountLate(tag, p) ==
    Cardinality({k \in 1 .. Len(events) :
                    /\ events[k][1] = tag
                    /\ events[k][2] = p
                    /\ stamps[k] >= timeout})

\* C5: cooperative shutdown. Under fair scheduling every philosopher thread
\* terminates; a thread whose deadline check sees the deadline passed leaves
\* its loop and a terminated thread stays terminated; each philosopher pushes
\* at most one Thinking, one Eating and one FinishedEating at or after the
\* deadline.
C5_CooperativeShutdown ==
    /\ <>(\A p \in Philosophers : pc[p] \in Terminated)
    /\ [][\A p \in Philosophers :
            /\ (pc[p] = "check" /\ now >= timeout /\ pc'[p] # "check")
                  => pc'[p] \in Terminated
            /\ pc[p] \in Terminated => pc'[p] = pc[p]]_vars
    /\ [](\A p \in Philosophers :
            \A tag \in {"Thinking", "Eating", "FinishedEating"} :
               CountLate(tag, p) <= 1)

\* every thread is over and some philosopher pushed a whole cycle late
C5_Witness ==
    /\ \A p \in Philosophers : pc[p] \in Terminated
    /\ \E p \in Philosophers :
         \A tag \in {"Thinking", "Eating", "FinishedEating"} :
            CountLate(tag, p) = 1

\* C6: bounded termination. Under the discrete clock in which only sleeps
\* take time, no event is pushed later than
\* timeout + max_think_duration + max_eat_duration.
C6_BoundedTermination ==
    \A k \in 1 .. Len(events) :
       stamps[k] <= timeout + max_think_duration + max_eat_duration

\* a FinishedEating pushed after the deadline, after the longest sleeps
C6_Witness ==
    /\ max_think_duration > 1
    /\ \E k \in 1 .. Len(events) :
         /\ events[k][1] = "FinishedEating"
         /\ stamps[k] = timeout + max_think_duration + max_eat_duration - 1

\* C7: ring mapping. For n >= 2 every Eating and FinishedEating event of
\* philosopher p carries left = (p - 1 + n) mod n and right = p, so resource
\* c appears only in events of philosophers c and (c + 1) mod n.
C7_RingMapping ==
    n >= 2 =>
      \A k \in 1 .. Len(events) :
        events[k][1] \in {"Eating", "FinishedEating"} =>
          /\ events[k][3] = (events[k][2] - 1 + n) % n
          /\ events[k][4] = events[k][2]
          /\ \A c \in {events[k][3], events[k][4]} :
                events[k][2] \in {c, (c + 1) % n}

\* at a table of three, all three philosophers have eaten
C7_Witness ==
    /\ n = 3
    /\ \A p \in Philosophers :
         \E k \in 1 .. Len(events) :
            events[k] = FinishedEating(p, (p + 2) % 3, p)

\* the tuples whose last Eating among the first k events of the log has no
\* FinishedEating after it
ActiveTuples(k) ==
    {<<events[j][2], events[j][3], events[j][4]>> :
        j \in {a \in 1 .. k : ActiveIn(a, k)}}

\* how many discrepancies the Eating event at 0-based index i0 owes to q
OwedDiscrepancies(i0, q) ==
    IF events[i0 + 1][1] # "Eating" THEN 0
    ELSE Cardinality({t \in ActiveTuples(i0) :
                         /\ t[1] = q
                         /\ {events[i0 + 1][3], events[i0 + 1][4]}
                               \cap {t[2], t[3]} # {}})

CountDiscrepancies(d) ==
    Cardinality({k \in 1 .. Len(discrepancies) : discrepancies[k] = d})

ScenarioC ==
    <<Eating(0, 4, 0), Eating(1, 0, 1),
      FinishedEating(0, 4, 0), FinishedEating(1, 0, 1)>>

\* C8: analyzer detection. After the first i events of any log the active set
\* is the set of tuples with an Eating not yet followed by its
\* FinishedEating, and the discrepancy list holds (i0, p, q) once per active
\* tuple of q that shares a resource with the Eating(p, l, r) at index i0,
\* and nothing else, by ascending index; the log Eating(0,4,0),
\* Eating(1,0,1), FinishedEating(0,4,0), FinishedEating(1,0,1) gives exactly
\* <<(1, 1, 0)>>.
C8_AnalyzerDetection ==
    mainPc \in {"analyze", "reported"} =>
      /\ currently_eating = ActiveTuples(i)
      /\ \A k \in 1 .. Len(discrepancies) :
            /\ discrepancies[k][1] \in 0 .. (i - 1)
            /\ events[discrepancies[k][1] + 1][1] = "Eating"
            /\ events[discrepancies[k][1] + 1][2] = discrepancies[k][2]
            /\ CountDiscrepancies(discrepancies[k])
                 = OwedDiscrepancies(discrepancies[k][1], discrepancies[k][3])
            /\ k > 1 => discrepancies[k - 1][1] <= discrepancies[k][1]
      /\ \A i0 \in 0 .. (i - 1) :
            \A t \in ActiveTuples(i0) :
               CountDiscrepancies(<<i0, events[i0 + 1][2], t[1]>>)
                 = OwedDiscrepancies(i0, t[1])
      /\ (events = ScenarioC /\ mainPc = "reported") =>
            discrepancies = <<<<1, 1, 0>>>>

\* the report on the log of scenario C
C8_Witness ==
    /\ mainPc = "reported"
    /\ events = ScenarioC
    /\ verdict = "discrepancies found"

\* C9: release on abnormal exit. A chopstick that a philosopher held when its
\* thread panicked does not stay unavailable: once unlocked, a try_lock of it
\* by the neighbour succeeds.
C9_ReleaseOnAbnormalExit ==
    \A c \in DOMAIN chopsticks :
       (poisoned[c] /\ chopsticks[c] = Free) => try_lock(c) = "Ok"

\* C10 as stated: at a table of one, left and right are resource 0 and every
\* try_to_eat acquires both and eats.
C10_SelfAcquireSucceeds ==
    n = 1 =>
      /\ left_chopstick(0) = 0 /\ right_chopstick(0) = 0
      /\ locked_right[0] # "None" => locked_right[0] = "Ok"
      /\ pc[0] \notin {"endIfLeft", "endFnRight", "endFnLeft"}

\* C10 amended: at a table of one, left and right are resource 0; every
\* try_to_eat locks it as left, fails with WouldBlock on it as right, and
\* does not eat: no Eating or FinishedEating is ever pushed and times_fed
\* stays 0.
C10_SelfAcquireFails ==
    n = 1 =>
      /\ left_chopstick(0) = 0 /\ right_chopstick(0) = 0
      /\ locked_left[0] \in {"None", "Ok"}
      /\ locked_right[0] \in {"None", "WouldBlock"}
      /\ pc[0] \notin {"eat", "eatPush", "eating", "finLock", "finPush",
                        "dropRight", "dropLeft", "dropEs"}
      /\ \A k \in 1 .. Len(events) : events[k] = Thinking(0)
      /\ times_fed[0] = 0

\* the lone philosopher holds resource 0 as left and was refused it as right
C10_Witness ==
    /\ n = 1
    /\ pc[0] = "endIfLeft"
    /\ locked_left[0] = "Ok"
    /\ locked_right[0] = "WouldBlock"
    /\ chopsticks[0] = 0

\* philosopher p holds no chopstick guard and no lock
HoldsNothing(p) ==
    /\ \A c \in DOMAIN chopsticks : chopsticks[c] # p
    /\ locked_left[p] = "None"
    /\ locked_right[p] = "None"
    /\ events_lock # p
    /\ ~times_fed_lock[p]

\* C11: clock-read failure is local. The step in which a philosopher's
\* deadline check fails to read the clock is taken at the loop head, moves no
\* other thread and changes nothing but that thread's position; the thread
\* then holds nothing, stays out of its loop and pushes no further event; any
\* other thread leaves its loop normally only at its own deadline check, with
\* the deadline passed.
C11_ClockFailureLocal ==
    /\ [](\A p \in Philosophers : pc[p] = "clockFailed" => HoldsNothing(p))
    /\ [][\A p \in Philosophers :
            /\ (pc[p] # "clockFailed" /\ pc'[p] = "clockFailed") =>
                  /\ pc[p] = "check"
                  /\ \A q \in Philosophers \ {p} : pc'[q] = pc[q]
                  /\ UNCHANGED <<wake, chopsticks, poisoned, locked_left,
                                 locked_right, events, stamps, events_lock,
                                 times_fed, times_fed_lock>>
            /\ pc[p] = "clockFailed" =>
                  /\ pc'[p] = "clockFailed"
                  /\ Len(events') > Len(events) =>
                        events'[Len(events')][2] # p
            /\ (pc[p] # "done" /\ pc'[p] = "done") =>
                  /\ pc[p] = "check"
                  /\ now >= timeout]_vars

\* one philosopher failed at its first deadline check; another went on, ate
\* and stopped at its own deadline check
C11_Witness ==
    \E p, q \in Philosophers :
      /\ p # q
      /\ pc[p] = "clockFailed"
      /\ CountEvents("Thinking", p) = 0
      /\ pc[q] = "done"
      /\ times_fed[q] >= 1

\* C12: join before analysis. While analyze runs and after it, every
\* philosopher thread has terminated and none holds the event-log lock; once
\* main has left thread::scope no thread moves and the log does not change.
C12_JoinBeforeAnalysis ==
    /\ [](mainPc \in {"analyze", "reported"} =>
            /\ \A p \in Philosophers : pc[p] \in NormallyTerminated
            /\ events_lock = Free)
    /\ [][mainPc # "scope" =>
            /\ events' = events
            /\ pc' = pc]_vars

\* analyze is half way through the log of a run in which someone ate
C12_Witness ==
    /\ mainPc = "analyze"
    /\ i > 0
    /\ i < Len(events)
    /\ \E p \in Philosophers : CountEvents("FinishedEating", p) > 0

\* C13: the event log is append-only. A step leaves the log unchanged or adds
\* exactly one event at its end, keeping every earlier event in place; the
\* added event belongs to the thread that holds the event-log lock, and is the
\* one that thread is about to push (so each thread's events are in the log in
\* the order it pushed them).
C13_AppendOnly ==
    [][\/ events' = events
       \/ /\ Len(events') = Len(events) + 1
          /\ SubSeq(events', 1, Len(events)) = events
          /\ events_lock \in Philosophers
          /\ events'[Len(events')][2] = events_lock
          /\ events'[Len(events')][1] =
                (CASE pc[events_lock] = "thinkPush" -> "Thinking"
                   [] pc[events_lock] = "eatPush" -> "Eating"
                   [] pc[events_lock] = "finPush" -> "FinishedEating"
                   [] OTHER -> "none")]_vars

\* the events of two philosophers are interleaved in the log
C13_Witness ==
    /\ Len(events) >= 4
    /\ \E a, b, c \in 1 .. Len(events) :
         /\ a < b /\ b < c
         /\ events[a][2] = events[c][2]
         /\ events[a][2] # events[b][2]
         /\ events[b][1] = "Eating"

\* C14: the right chopstick is try-locked only if the try_lock of the left
\* one succeeded. In a run without a fault, a philosopher whose left try_lock
\* failed has made no try_lock of its right chopstick and does not hold it.
C14_RightOnlyAfterLeft ==
    (\A c \in DOMAIN poisoned : ~poisoned[c]) =>
      \A p \in Philosophers :
        locked_left[p] = "WouldBlock" =>
          /\ locked_right[p] = "None"
          /\ chopsticks[right_chopstick(p)] # p

\* philosopher p holds the guards of both its chopsticks
HoldsBoth(p) ==
    /\ chopsticks[left_chopstick(p)] = p
    /\ chopsticks[right_chopstick(p)] = p
    /\ locked_left[p] = "Ok"
    /\ locked_right[p] = "Ok"

\* C15: step order of a successful eat. A philosopher pushes Eating only
\* while it holds both chopsticks; times_fed is incremented after Eating and
\* before FinishedEating is pushed; the right chopstick is released after
\* FinishedEating and before the left one; hence whenever the log holds an
\* Eating(p, l, r) without its FinishedEating, p holds both l and r.
C15_EatStepOrder ==
    \A p \in Philosophers :
      LET eatings == CountEvents("Eating", p)
          finished == CountEvents("FinishedEating", p)
      IN /\ finished <= times_fed[p]
         /\ times_fed[p] <= eatings
         /\ eatings <= finished + 1
         /\ eatings > finished =>
               /\ HoldsBoth(p)
               /\ \E a \in 1 .. Len(events) :
                     /\ ActiveIn(a, Len(events))
                     /\ events[a] =
                          Eating(p, n_chopsticks(n)[left_chopstick(p)],
                                    n_chopsticks(n)[right_chopstick(p)])
         /\ pc[p] = "eatPush" => HoldsBoth(p)
         /\ pc[p] = "finPush" => times_fed[p] = eatings
         /\ pc[p] = "dropRight" => (HoldsBoth(p) /\ eatings = finished)
         /\ pc[p] = "dropLeft" =>
               /\ chopsticks[left_chopstick(p)] = p
               /\ chopsticks[right_chopstick(p)] # p
               /\ eatings = finished

\* a philosopher has released its right chopstick and still holds its left
\* one after a whole meal, while the neighbour that took the released
\* chopstick holds both of its own and is about to push Eating
C15_Witness ==
    \E p, q \in Philosophers :
      /\ p # q
      /\ pc[p] = "dropLeft"
      /\ times_fed[p] = 1
      /\ chopsticks[right_chopstick(p)] = q
      /\ pc[q] = "eat"
      /\ HoldsBoth(q)

\* the positions of try_to_eat on the way out without eating
FailedAttempt == {"endIfLeft", "endFnRight", "endFnLeft"}

\* C16: a failed attempt has no lasting effect. No step of try_to_eat up to
\* the decision to eat, and no step of its way out without eating, pushes an
\* event, changes a times_fed or poisons a chopstick; such a step changes the
\* lock state of a chopstick only between free and held by this philosopher;
\* when the attempt returns without eating the philosopher holds nothing, so
\* every chopstick it locked is as it was before the attempt.
C16_FailedAttemptNoEffect ==
    [][\A p \in Philosophers :
         (pc[p] \in {"tryLeft", "tryRight"} \cup FailedAttempt
            /\ pc'[p] # pc[p]) =>
           /\ events' = events
           /\ times_fed' = times_fed
           /\ poisoned' = poisoned
           /\ \A c \in DOMAIN chopsticks :
                 chopsticks'[c] # chopsticks[c] =>
                   {chopsticks[c], chopsticks'[c]} = {Free, p}
           /\ pc'[p] \in FailedAttempt \cup {"tryRight", "eat", "check"}
           /\ pc'[p] = "check" =>
                 /\ \A c \in DOMAIN chopsticks : chopsticks'[c] # p
                 /\ locked_left'[p] = "None"
                 /\ locked_right'[p] = "None"]_vars

\* a philosopher that got its left chopstick was refused the right one, held
\* by a neighbour that is eating, and is on its way out of try_to_eat
C16_Witness ==
    \E p, q \in Philosophers :
      /\ p # q
      /\ pc[p] = "endIfLeft"
      /\ locked_right[p] = "WouldBlock"
      /\ chopsticks[left_chopstick(p)] = p
      /\ chopsticks[right_chopstick(p)] = q
      /\ pc[q] = "eating"

\* the events of philosopher p, in log order
EventsOf(p) == SelectSeq(events, LAMBDA e : e[2] = p)

\* C17: per-philosopher event shape. The events of philosopher p in the log
\* are a prefix of a sequence of cycles Thinking(p), optionally followed by
\* Eating(p, l, r) and then FinishedEating(p, l, r) with the same l and r: the
\* first event is Thinking, an Eating comes right after a Thinking, a
\* FinishedEating right after its Eating, and a Thinking never right after an
\* Eating; try_to_eat is entered only from the end of think, so there is at
\* most one attempt and one Eating per cycle.
C17_EventShape ==
    /\ [](\A p \in Philosophers :
            LET s == EventsOf(p)
            IN \A k \in 1 .. Len(s) :
                 /\ k = 1 => s[k][1] = "Thinking"
                 /\ s[k][1] = "Eating" =>
                       (k > 1 /\ s[k - 1][1] = "Thinking")
                 /\ s[k][1] = "FinishedEating" =>
                       (k > 1 /\ s[k - 1] = Eating(p, s[k][3], s[k][4]))
                 /\ (s[k][1] = "Thinking" /\ k > 1) =>
                       s[k - 1][1] \in {"Thinking", "FinishedEating"})
    /\ [][\A p \in Philosophers :
            (pc'[p] = "tryLeft" /\ pc[p] # "tryLeft") =>
               pc[p] = "thinkSleep"]_vars

\* a philosopher went through a cycle without a meal and then one with a meal
C17_Witness ==
    \E p \in Philosophers :
      LET s == EventsOf(p)
      IN /\ Len(s) = 4
         /\ s[1][1] = "Thinking"
         /\ s[2][1] = "Thinking"
         /\ s[3][1] = "Eating"
         /\ s[4][1] = "FinishedEating"

\* C18: starvation is possible. Nothing makes a hungry philosopher eat: a
\* try_lock of a taken chopstick fails at once, an attempt in which a
\* try_lock failed does not eat, and its way out leads back to the deadline
\* check with times_fed unchanged, without a second try. So in the runs in
\* which every philosopher is hungry in every cycle, a philosopher can lose
\* every attempt and end with times_fed = 0 while another one eats
\* (C18_Witness is such an end of a run).
C18_StarvationPossible ==
    [][\A p \in Philosophers :
         /\ (pc[p] = "tryLeft" /\ pc'[p] # pc[p]
               /\ chopsticks[left_chopstick(p)] # Free) =>
               locked_left'[p] = "WouldBlock"
         /\ (pc[p] = "tryRight" /\ pc'[p] # pc[p]
               /\ (locked_left[p] # "Ok"
                     \/ chopsticks[right_chopstick(p)] # Free)) =>
               /\ pc'[p] \in FailedAttempt \cup {"check"}
               /\ times_fed'[p] = times_fed[p]
         /\ (pc[p] \in FailedAttempt /\ pc'[p] # pc[p]) =>
               /\ pc'[p] \in FailedAttempt \cup {"check"}
               /\ times_fed'[p] = times_fed[p]]_vars

\* the end of a fault-free run in which every philosopher was hungry in every
\* cycle: one went through two cycles, lost both attempts and was never fed,
\* while another philosopher ate
C18_Witness ==
    /\ n >= 2
    /\ \A p \in Philosophers : pc[p] = "done"
    /\ \E p, q \in Philosophers :
         /\ p # q
         /\ CountEvents("Thinking", p) >= 2
         /\ CountEvents("Eating", p) = 0
         /\ times_fed[p] = 0
         /\ times_fed[q] >= 1

\* the discrepancy lists analyze can hold after the Eating event at index i,
\* one for each order in which currently_eating can be iterated
NextDiscrepancies ==
    LET v == events[i + 1][2]
        left == events[i + 1][3]
        right == events[i + 1][4]
        hits == {t \in currently_eating : overlaps(left, right, t[2], t[3])}
    IN {discrepancies \o
           [k \in 1 .. Cardinality(hits) |-> <<i, v, order[k][1]>>] :
              order \in IterationOrders(hits)}

\* C19: the analyzer is deterministic. Two analyses of the same log that have
\* come to the same Eating event with the same discrepancy list go on with
\* the same list, entries in the same order, also when the event conflicts
\* with two or more active tuples.
C19_AnalyzerDeterministic ==
    (mainPc = "analyze" /\ i < Len(events) /\ events[i + 1][1] = "Eating") =>
       \A d1, d2 \in NextDiscrepancies : d1 = d2

\* the positions of a thread outside try_to_eat
OutsideAttempt ==
    {"check", "think", "thinkPush", "thinkSleep", "done", "clockFailed"}

\* C20: chopsticks are held only inside an eat attempt. In a run without a
\* fault, a philosopher that is at its deadline check, pushing Thinking,
\* sleeping in think, deciding whether it is hungry, or terminated holds no
\* chopstick; once every thread has terminated every chopstick is free.
C20_HeldOnlyInAttempt ==
    (\A p \in Philosophers : pc[p] # "panicked") =>
      /\ \A p \in Philosophers :
            pc[p] \in OutsideAttempt =>
              /\ \A c \in DOMAIN chopsticks : chopsticks[c] # p
              /\ locked_left[p] = "None"
              /\ locked_right[p] = "None"
      /\ (\A p \in Philosophers : pc[p] \in Terminated) =>
            \A c \in DOMAIN chopsticks : chopsticks[c] = Free

\* one philosopher has eaten and terminated, and holds nothing, while a
\* neighbour is eating with both of its chopsticks
C20_Witness ==
    \E p, q \in Philosophers :
      /\ p # q
      /\ pc[p] = "done"
      /\ times_fed[p] >= 1
      /\ pc[q] = "eating"
      /\ HoldsBoth(q)

====
